---- MODULE Spec2Model ----
(***************************************************************************)
(* Model of src/main.py: a LangGraph pipeline                              *)
(*   get_user_data -> analyze_intention -> generate_answer ->              *)
(*   process_outputs -> END                                                *)
(* over a dictionary-shaped AppState, with the PDF renderer, the SMTP      *)
(* dispatcher, the terminal and the language model as the environment.     *)
(*                                                                         *)
(* Text is modelled as a sequence of one-character strings, so that        *)
(* slicing (question[:40]) and replacement (content.replace) are computed. *)
(* A Python exception that no handler catches ends the run: pc = "crashed" *)
(* and exc names the exception.                                            *)
(***************************************************************************)
EXTENDS Integers, Sequences, FiniteSets, TLC

\* ------------------------------------------------------------------ bounds
\* Length of the longest question the user types.
MaxQuestionLen == 41

\* ------------------------------------------------------- program constants
\* question[:40] in the PDF title (line 145).
TitlePrefixLen == 40
\* question[:30] in the mail subject (line 149).
SubjectPrefixLen == 30
\* os.getenv("EMAIL_PORT", 587) (line 55).
DefaultPort == 587

\* os.getenv of a variable that is not set returns None.
None == "<None>"
\* The placeholder address the dispatcher rejects (line 57).
PlaceholderEmail == "tu_correo@gmail.com"
\* os.getenv("EMAIL_HOST", "smtp.gmail.com") (line 54).
DefaultHost == "smtp.gmail.com"
\* pdf_filename (line 144).
PdfFilename == "respuesta_ia.pdf"
\* email_body (line 150).
EmailBody ==
    <<"H","o","l","a",",","\n","\n","A","d","j","u","n","t","o",
      " ","e","n","c","o","n","t","r","a","r","á","s"," ","l",
      "a"," ","r","e","s","p","u","e","s","t","a"," ","g","e",
      "n","e","r","a","d","a"," ","p","o","r"," ","l","a"," ",
      "I","A"," ","a"," ","t","u"," ","p","r","e","g","u","n",
      "t","a",".","\n","\n","S","a","l","u","d","o","s",".">>

\* ------------------------------------------------------------------- text
Take(s, n) == SubSeq(s, 1, IF Len(s) < n THEN Len(s) ELSE n)

\* "Respuesta a: " (line 145)
TitleLead == <<"R","e","s","p","u","e","s","t","a"," ","a",":"," ">>
\* "Respuesta a tu pregunta: '" (line 149)
SubjectLead == <<"R","e","s","p","u","e","s","t","a"," ","a"," ","t","u"," ",
                 "p","r","e","g","u","n","t","a",":"," ","'">>
\* "..." and "...'"
Ellipsis == <<".",".",".">>
SubjectTail == <<".",".",".","'">>

\* Variant: the title carries the whole question.
TitleWhole(question) == TitleLead \o question \o Ellipsis
\* f"Respuesta a: {question[:40]}..." (line 145)
Title(question) == TitleLead \o Take(question, TitlePrefixLen) \o Ellipsis

\* Variant: the subject is cut like the title.
SubjectCutLikeTitle(question) ==
    SubjectLead \o Take(question, TitlePrefixLen) \o SubjectTail
\* f"Respuesta a tu pregunta: '{question[:30]}...'" (line 149)
Subject(question) == SubjectLead \o Take(question, SubjectPrefixLen) \o SubjectTail

\* The question of the spec's scenario A.
ScenarioQuestion == <<"W","h","a","t"," ","i","s"," ","2","+","2","?">>
Digit(i) == CASE i % 10 = 0 -> "0" [] i % 10 = 1 -> "1" [] i % 10 = 2 -> "2"
              [] i % 10 = 3 -> "3" [] i % 10 = 4 -> "4" [] i % 10 = 5 -> "5"
              [] i % 10 = 6 -> "6" [] i % 10 = 7 -> "7" [] i % 10 = 8 -> "8"
              [] OTHER -> "9"
LongQuestion(n) == [i \in 1..n |-> Digit(i)]

\* What the user may type at the two prompts (lines 105-106).
Questions == {<<>>, ScenarioQuestion, LongQuestion(SubjectPrefixLen + 1),
              LongQuestion(MaxQuestionLen)}
Emails == {"a@b.com"}

\* What llm.invoke(...).content may be (lines 114-115, 125-126).
Intentions == {<<"A","r","i","t","h","m","e","t","i","c">>}
Answers == {<<>>, <<"4">>, <<"a","\n","b">>}

\* The process environment read by os.getenv (lines 52-55).
SenderValues == {None, "", PlaceholderEmail, "me@x.com"}
PasswordValues == {None, "secret"}
HostValues == {None, "smtp.x.com"}
PortValues == {None, "2525", "abc"}
Envs == [EMAIL_HOST_USER : SenderValues, EMAIL_HOST_PASSWORD : PasswordValues,
         EMAIL_HOST : HostValues, EMAIL_PORT : PortValues]

\* ------------------------------------------------------------------ state
VARIABLES
    pc,          \* the node the graph is about to run, or "start"/"crashed"
    state,       \* AppState: a mapping from the keys that hold a value
    env,         \* the process environment (.env)
    fs,          \* the filesystem: a mapping from file names to documents
    trace,       \* the nodes run so far, with their outcome
    llmCalls,    \* number of llm.invoke calls
    renderCalls, \* the create_pdf calls, in order
    mailCalls,   \* the send_email_with_attachment calls, in order
    smtpLog,     \* the server.sendmail attempts, in order
    deleteCalls, \* number of os.remove calls
    reported,    \* the failure messages printed, in order
    exc          \* the uncaught exception that ended the run, or "none"

vars == <<pc, state, env, fs, trace, llmCalls, renderCalls, mailCalls,
          smtpLog, deleteCalls, reported, exc>>

\* The empty mapping: {} in Python, no file on disk.
EmptyMap == [k \in {} |-> k]
Has(s, k) == k \in DOMAIN s

\* Variant: the returned mapping replaces the state instead of updating it.
MergeReplace(s, u) == u
\* Variant: an empty returned mapping resets the state.
MergeResetOnEmpty(s, u) ==
    IF DOMAIN u = {} THEN u
    ELSE [k \in DOMAIN s \cup DOMAIN u |-> IF k \in DOMAIN u THEN u[k] ELSE s[k]]
\* AppState has no reducer: a node's returned mapping overwrites the keys it
\* holds and leaves the others alone.
Merge(s, u) == [k \in DOMAIN s \cup DOMAIN u |-> IF k \in DOMAIN u THEN u[k] ELSE s[k]]

\* The run is in a failed state: `error` holds a non-empty text.
ErrorSet(s) == Has(s, "error") /\ s["error"] # ""

\* Variant: the guard looks up a key no node ever writes.
IsFailedWrongKey(s) == Has(s, "err") /\ s["err"] # ""
\* state.get("error") is truthy (line 135).
IsFailed(s) == Has(s, "error") /\ s["error"] # ""

Init ==
    /\ pc = "start"
    /\ state = EmptyMap
    /\ env \in Envs
    /\ fs = EmptyMap
    /\ trace = <<>>
    /\ llmCalls = 0
    /\ renderCalls = <<>>
    /\ mailCalls = <<>>
    /\ smtpLog = <<>>
    /\ deleteCalls = 0
    /\ reported = <<>>
    /\ exc = "none"

\* ----------------------------------------------------------- collaborators
\* content.replace('\n', '<br/>') (line 40)
RECURSIVE FormatContent(_)
FormatContent(c) ==
    IF c = <<>> THEN <<>>
    ELSE (IF Head(c) = "\n" THEN <<"<","b","r","/",">">> ELSE <<Head(c)>>)
         \o FormatContent(Tail(c))

\* Variant: the file name is returned from the except branch too.
create_pdfAlwaysNamed(title, content, filename, ok) ==
    IF ok
    THEN [ret |-> filename,
          written |-> (filename :> [title |-> title, body |-> FormatContent(content)]),
          printed |-> <<>>]
    ELSE [ret |-> filename,
          written |-> EmptyMap,
          printed |-> <<[tag |-> "RenderError", detail |-> "No se pudo crear el PDF"]>>]
\* create_pdf: ok is whether reportlab builds the document.  On success the
\* file is written and its name returned; on any exception the message is
\* printed and None returned.
create_pdf(title, content, filename, ok) ==
    IF ok
    THEN [ret |-> filename,
          written |-> (filename :> [title |-> title, body |-> FormatContent(content)]),
          printed |-> <<>>]
    ELSE [ret |-> None,
          written |-> EmptyMap,
          printed |-> <<[tag |-> "RenderError", detail |-> "No se pudo crear el PDF"]>>]

\* int(os.getenv("EMAIL_PORT", 587)) raises ValueError on a non-numeric text.
NumericPorts == {"2525"}
PortRaises(e) == e.EMAIL_PORT # None /\ e.EMAIL_PORT \notin NumericPorts
PortOf(e) == IF e.EMAIL_PORT = None THEN DefaultPort ELSE 2525
HostOf(e) == IF e.EMAIL_HOST = None THEN DefaultHost ELSE e.EMAIL_HOST

\* A value Python treats as false: None or the empty text.
Falsy(v) == v = None \/ v = ""
\* Variant: the placeholder address is not rejected.
CredentialsMissingNoPlaceholder(e) ==
    Falsy(e.EMAIL_HOST_USER) \/ Falsy(e.EMAIL_HOST_PASSWORD)
\* not all([sender_email, password]) or sender_email == "tu_correo@gmail.com"
CredentialsMissing(e) ==
    \/ Falsy(e.EMAIL_HOST_USER)
    \/ Falsy(e.EMAIL_HOST_PASSWORD)
    \/ e.EMAIL_HOST_USER = PlaceholderEmail

\* send_email_with_attachment: files is the filesystem when the attachment is
\* opened, readable is whether the open/read succeeds on an existing file,
\* smtpOk is whether starttls/login/sendmail all succeed.
send_email_with_attachment(recipient, subject, body, path, e, files, readable, smtpOk) ==
    IF PortRaises(e)
    THEN [raised |-> "ValueError", printed |-> <<>>, smtp |-> <<>>]
    ELSE IF CredentialsMissing(e)
    THEN [raised |-> "none", smtp |-> <<>>,
          printed |-> <<[tag |-> "CredentialsMissing",
                         detail |-> "Credenciales de correo no configuradas en .env."]>>]
    ELSE IF ~Has(files, path)
    THEN [raised |-> "none", smtp |-> <<>>,
          printed |-> <<[tag |-> "AttachmentNotFound",
                         detail |-> "Archivo adjunto no encontrado"]>>]
    ELSE IF ~readable
    THEN [raised |-> "none", smtp |-> <<>>,
          printed |-> <<[tag |-> "AttachError",
                         detail |-> "No se pudo adjuntar el archivo"]>>]
    ELSE [raised |-> "none",
          smtp |-> <<[host |-> HostOf(e), port |-> PortOf(e),
                      from |-> e.EMAIL_HOST_USER, to |-> recipient,
                      subject |-> subject, body |-> body,
                      attachment |-> files[path], ok |-> smtpOk]>>,
          printed |-> IF smtpOk THEN <<>>
                      ELSE <<[tag |-> "TransportError",
                              detail |-> "Ocurrió un error al enviar el correo"]>>]

\* ------------------------------------------------------------------ nodes
\* Each node yields [raised, update]: the exception it lets escape ("none"
\* when it returns) and the mapping it returns.
AnalyzeError == "Error analizando la intención"
GenerateError == "Error generando la respuesta"

\* get_user_data: input() raises EOFError when there is no input channel;
\* nothing catches it.
get_user_data(s, available, question, email) ==
    IF available
    THEN [raised |-> "none", update |-> [question |-> question, email |-> email]]
    ELSE [raised |-> "EOFError", update |-> EmptyMap]

\* Variant: a failing call also stores an empty intention.
analyze_intentionBlanksIntention(s, llmOk, content) ==
    IF ~Has(s, "question")
    THEN [raised |-> "KeyError", update |-> EmptyMap, llm |-> 0]
    ELSE IF llmOk
    THEN [raised |-> "none", update |-> [intention |-> content], llm |-> 1]
    ELSE [raised |-> "none", llm |-> 1,
          update |-> [intention |-> <<>>, error |-> AnalyzeError]]
\* analyze_intention: the prompt is built from state['question'] before the
\* try block; a failing llm.invoke is turned into an error update.
analyze_intention(s, llmOk, content) ==
    IF ~Has(s, "question")
    THEN [raised |-> "KeyError", update |-> EmptyMap, llm |-> 0]
    ELSE IF llmOk
    THEN [raised |-> "none", update |-> [intention |-> content], llm |-> 1]
    ELSE [raised |-> "none", update |-> [error |-> AnalyzeError], llm |-> 1]

\* Variant: a failing llm.invoke yields an empty update instead of `error`.
generate_answerNoError(s, llmOk, content) ==
    IF Has(s, "question") /\ llmOk
    THEN [raised |-> "none", update |-> [answer |-> content], llm |-> 1]
    ELSE [raised |-> "none", update |-> EmptyMap,
          llm |-> IF Has(s, "question") THEN 1 ELSE 0]
\* Variant: a successful call resets `error`.
generate_answerClearsError(s, llmOk, content) ==
    IF ~Has(s, "question")
    THEN [raised |-> "none", update |-> [error |-> GenerateError], llm |-> 0]
    ELSE IF llmOk
    THEN [raised |-> "none", update |-> [answer |-> content, error |-> ""], llm |-> 1]
    ELSE [raised |-> "none", update |-> [error |-> GenerateError], llm |-> 1]
\* Variant: an empty completion is not stored.
generate_answerDropsEmpty(s, llmOk, content) ==
    IF ~Has(s, "question")
    THEN [raised |-> "none", update |-> [error |-> GenerateError], llm |-> 0]
    ELSE IF llmOk
    THEN [raised |-> "none", llm |-> 1,
          update |-> IF content = <<>> THEN EmptyMap ELSE [answer |-> content]]
    ELSE [raised |-> "none", update |-> [error |-> GenerateError], llm |-> 1]
\* Variant: the failure carries the message of analyze_intention.
generate_answerWrongMessage(s, llmOk, content) ==
    IF Has(s, "question") /\ llmOk
    THEN [raised |-> "none", update |-> [answer |-> content], llm |-> 1]
    ELSE [raised |-> "none", update |-> [error |-> AnalyzeError],
          llm |-> IF Has(s, "question") THEN 1 ELSE 0]
\* generate_answer: state['question'] is read inside the try block.
generate_answer(s, llmOk, content) ==
    IF ~Has(s, "question")
    THEN [raised |-> "none", update |-> [error |-> GenerateError], llm |-> 0]
    ELSE IF llmOk
    THEN [raised |-> "none", update |-> [answer |-> content], llm |-> 1]
    ELSE [raised |-> "none", update |-> [error |-> GenerateError], llm |-> 1]

\* `return {{}}` (lines 137, 157) and `app.invoke({{}})` (line 180) build a
\* set whose element is a dict: Python raises TypeError (unhashable type).
SetOfEmptyDict == "TypeError"

\* Variant: the file is left on disk.
os_removeKeep(files, path) == [raised |-> "none", files |-> files]
\* os.remove(path) (line 154): deletes the file, or raises FileNotFoundError
\* when it is not there.
os_remove(files, path) ==
    IF Has(files, path)
    THEN [raised |-> "none", files |-> [f \in DOMAIN files \ {path} |-> files[f]]]
    ELSE [raised |-> "FileNotFoundError", files |-> files]

\* The side effects a run of process_outputs adds.
NoEffects == [render |-> <<>>, mail |-> <<>>, smtp |-> <<>>, deletes |-> 0,
              printed |-> <<>>]

\* process_outputs: pdfOk, vanished (the file disappears between its creation
\* and the dispatcher's open), readable and smtpOk are the environment's
\* choices.  files is the resulting filesystem.
process_outputs(s, e, files0, pdfOk, vanished, readable, smtpOk) ==
    IF IsFailed(s)
    THEN [NoEffects EXCEPT !.printed =
              <<[tag |-> "PROCESO INTERRUMPIDO", detail |-> s["error"]]>>]
         @@ [raised |-> SetOfEmptyDict, files |-> files0]
    ELSE IF ~(Has(s, "answer") /\ Has(s, "question") /\ Has(s, "email"))
    THEN NoEffects @@ [raised |-> "KeyError", files |-> files0]
    ELSE
      LET title   == Title(s["question"])
          pdf     == create_pdf(title, s["answer"], PdfFilename, pdfOk)
          files1  == Merge(files0, pdf.written)
          render  == <<[title |-> title, body |-> s["answer"], filename |-> PdfFilename]>>
      IN
      IF pdf.ret = None
      THEN [NoEffects EXCEPT !.render = render, !.printed = pdf.printed]
           @@ [raised |-> SetOfEmptyDict, files |-> files1]
      ELSE
        LET subject == Subject(s["question"])
            files2  == IF vanished
                       THEN [f \in DOMAIN files1 \ {pdf.ret} |-> files1[f]]
                       ELSE files1
            sent    == send_email_with_attachment(s["email"], subject, EmailBody,
                                                  pdf.ret, e, files2, readable, smtpOk)
            mail    == <<[to |-> s["email"], subject |-> subject, body |-> EmailBody,
                          attachment |-> pdf.ret]>>
            base    == [NoEffects EXCEPT !.render = render, !.mail = mail,
                                         !.smtp = sent.smtp,
                                         !.printed = pdf.printed \o sent.printed]
            removed == os_remove(files2, pdf.ret)
        IN
        IF sent.raised # "none"
        THEN base @@ [raised |-> sent.raised, files |-> files2]
        ELSE IF removed.raised # "none"
        THEN [base EXCEPT !.deletes = 1]
             @@ [raised |-> removed.raised, files |-> removed.files]
        ELSE [base EXCEPT !.deletes = 1]
             @@ [raised |-> SetOfEmptyDict, files |-> removed.files]

\* ----------------------------------------------------------------- runner
\* Variant: the two language-model nodes are wired in the other order.
EdgeSwapped(node) ==
    CASE node = "get_user_data"     -> "generate_answer"
      [] node = "generate_answer"   -> "analyze_intention"
      [] node = "analyze_intention" -> "process_outputs"
      [] node = "process_outputs"   -> "END"
\* The edges of the graph (lines 169-173).
Edge(node) ==
    CASE node = "get_user_data"     -> "analyze_intention"
      [] node = "analyze_intention" -> "generate_answer"
      [] node = "generate_answer"   -> "process_outputs"
      [] node = "process_outputs"   -> "END"

\* Variant: once `error` is set the run is routed straight to the terminal node.
RunnerNextShortCircuit(node, raised, s) ==
    IF raised # "none" THEN "crashed"
    ELSE IF ErrorSet(s) /\ node # "process_outputs" THEN "process_outputs"
    ELSE Edge(node)
\* Variant: an exception that escapes a node is swallowed and the edge followed.
RunnerNextSwallow(node, raised, s) == Edge(node)
\* Where the run goes after a node: an exception that escapes the node ends
\* the run, otherwise the node's single outgoing edge is followed whatever
\* the merged state s holds.
RunnerNext(node, raised, s) ==
    IF raised # "none" THEN "crashed" ELSE Edge(node)

\* Bookkeeping shared by the nodes: the trace entry records the node, whether
\* `error` was set in the state it received, and how it ended.
Entry(node, s, r) ==
    [node |-> node, errorBefore |-> ErrorSet(s),
     res |-> IF r.raised # "none" THEN "raise"
             ELSE IF Has(r.update, "error") THEN "fail" ELSE "ok"]

RunNode(node, r) ==
    /\ trace' = Append(trace, Entry(node, state, r))
    /\ state' = IF r.raised = "none" THEN Merge(state, r.update) ELSE state
    /\ pc' = RunnerNext(node, r.raised, state')
    /\ exc' = r.raised

\* python main.py: line 180 evaluates {{}} before app.invoke is entered.
MainScript ==
    /\ pc = "start"
    /\ pc' = "crashed"
    /\ exc' = SetOfEmptyDict
    /\ UNCHANGED <<state, env, fs, trace, llmCalls, renderCalls, mailCalls,
                   smtpLog, deleteCalls, reported>>

\* app.invoke(...) on the compiled graph with an empty mapping: the entry
\* point is get_user_data (line 169).
AppInvoke ==
    /\ pc = "start"
    /\ pc' = "get_user_data"
    /\ state' = EmptyMap
    /\ UNCHANGED <<env, fs, trace, llmCalls, renderCalls, mailCalls, smtpLog,
                   deleteCalls, reported, exc>>

GetUserData ==
    /\ pc = "get_user_data"
    /\ \E available \in BOOLEAN, q \in Questions, m \in Emails :
          RunNode("get_user_data", get_user_data(state, available, q, m))
    /\ UNCHANGED <<env, fs, llmCalls, renderCalls, mailCalls, smtpLog,
                   deleteCalls, reported>>

AnalyzeIntention ==
    /\ pc = "analyze_intention"
    /\ \E llmOk \in BOOLEAN, content \in Intentions :
          LET r == analyze_intention(state, llmOk, content) IN
          /\ RunNode("analyze_intention", r)
          /\ llmCalls' = llmCalls + r.llm
    /\ UNCHANGED <<env, fs, renderCalls, mailCalls, smtpLog, deleteCalls, reported>>

GenerateAnswer ==
    /\ pc = "generate_answer"
    /\ \E llmOk \in BOOLEAN, content \in Answers :
          LET r == generate_answer(state, llmOk, content) IN
          /\ RunNode("generate_answer", r)
          /\ llmCalls' = llmCalls + r.llm
    /\ UNCHANGED <<env, fs, renderCalls, mailCalls, smtpLog, deleteCalls, reported>>

ProcessOutputs ==
    /\ pc = "process_outputs"
    /\ \E pdfOk \in BOOLEAN, vanished \in BOOLEAN, readable \in BOOLEAN,
          smtpOk \in BOOLEAN :
          LET r == process_outputs(state, env, fs, pdfOk, vanished, readable, smtpOk) IN
          /\ RunNode("process_outputs", [raised |-> r.raised, update |-> EmptyMap])
          /\ fs' = r.files
          /\ renderCalls' = renderCalls \o r.render
          /\ mailCalls' = mailCalls \o r.mail
          /\ smtpLog' = smtpLog \o r.smtp
          /\ deleteCalls' = deleteCalls + r.deletes
          /\ reported' = reported \o r.printed
    /\ UNCHANGED <<env, llmCalls>>

Next ==
    \/ MainScript
    \/ AppInvoke
    \/ GetUserData
    \/ AnalyzeIntention
    \/ GenerateAnswer
    \/ ProcessOutputs

Spec == Init /\ [][Next]_vars

\* ------------------------------------------------------------ observations
Nodes == {"get_user_data", "analyze_intention", "generate_answer", "process_outputs"}
\* The run is over: no node is left to run.
Terminated == pc \in {"crashed", "END"}
\* Positions of the trace at which node n ran.
Runs(n) == {i \in 1..Len(trace) : trace[i].node = n}
Ran(n) == Runs(n) # {}
Failed(n) == \E i \in Runs(n) : trace[i].res = "fail"
Raised(n) == \E i \in Runs(n) : trace[i].res = "raise"
Succeeded(n) == \E i \in Runs(n) : trace[i].res = "ok"
\* The mail left the program: a sendmail attempt succeeded.
Delivered == \E i \in 1..Len(smtpLog) : smtpLog[i].ok
\* A failure reason was printed.
Reported == reported # <<>>
ReportedTag(t) == \E i \in 1..Len(reported) : reported[i].tag = t

TypeOK ==
    /\ pc \in Nodes \cup {"start", "crashed", "END"}
    /\ DOMAIN state \subseteq {"question", "email", "intention", "answer", "error"}
    /\ env \in Envs
    /\ DOMAIN fs \subseteq {PdfFilename}
    /\ llmCalls \in 0..2
    /\ deleteCalls \in 0..1
    /\ Len(renderCalls) <= 1 /\ Len(mailCalls) <= 1 /\ Len(smtpLog) <= 1
    /\ exc \in {"none", "TypeError", "EOFError", "KeyError", "ValueError",
                "FileNotFoundError"}

\* ------------------------------------------------------------------ claims
AnalyzeFailedThenGenerate ==
    \E i \in Runs("analyze_intention"), j \in Runs("generate_answer") :
        trace[i].res = "fail" /\ i < j

C2_Original ==
    (Terminated /\ trace # <<>>) => (Delivered # Reported)

AnswerNonEmpty(s) == Has(s, "answer") /\ s["answer"] # <<>>

C4_NoSideEffectsWhenFailed ==
    \A i \in Runs("process_outputs") :
        trace[i].errorBefore =>
            /\ renderCalls = <<>>
            /\ mailCalls = <<>>
            /\ smtpLog = <<>>
            /\ deleteCalls = 0
            /\ fs = EmptyMap
            /\ reported = <<[tag |-> "PROCESO INTERRUMPIDO", detail |-> state["error"]]>>

C4_Witness ==
    \E i \in Runs("process_outputs") : trace[i].errorBefore

\* C5 (as stated): in every run of the graph the terminal node executes
\* exactly once.
C5_Original ==
    (Terminated /\ trace # <<>>) => Cardinality(Runs("process_outputs")) = 1

\* C6 (as stated): a run never stops anywhere but at END.
C6_Original ==
    Terminated => pc = "END"

\* The dispatcher returned through one of its four exits.
DispatchReturned ==
    \/ Delivered
    \/ ReportedTag("CredentialsMissing")
    \/ ReportedTag("AttachmentNotFound")
    \/ ReportedTag("TransportError")

C8_Original ==
    \A i \in 1..Len(trace) :
        (trace[i].node # "process_outputs" /\ trace[i].res # "ok") =>
            /\ ErrorSet(state)
            /\ i < Len(trace) => trace[i + 1].node = "process_outputs"
            /\ ~(Terminated /\ i = Len(trace))

\* C9: when get_user_data fails, llm.invoke is never called and neither
\* analyze_intention nor generate_answer runs.
C9_NoLlmAfterInputFailure ==
    Raised("get_user_data") =>
        /\ llmCalls = 0
        /\ ~Ran("analyze_intention")
        /\ ~Ran("generate_answer")

C9_Witness ==
    /\ Raised("get_user_data")
    /\ Terminated

\* A credential of the four is absent, or is the placeholder.
AnyCredentialAbsent(e) ==
    \/ Falsy(e.EMAIL_HOST_USER) \/ e.EMAIL_HOST_USER = PlaceholderEmail
    \/ Falsy(e.EMAIL_HOST_PASSWORD)
    \/ e.EMAIL_HOST = None
    \/ e.EMAIL_PORT = None

BothLlmCallsSucceeded ==
    Succeeded("analyze_intention") /\ Succeeded("generate_answer")

CredentialsMissingOutcome ==
    /\ ReportedTag("CredentialsMissing")
    /\ smtpLog = <<>>
    /\ ~Delivered
    /\ ~Has(fs, PdfFilename)
    /\ deleteCalls = 1

IsPrefix(p, s) == Len(p) <= Len(s) /\ \A i \in 1..Len(p) : s[i] = p[i]
\* The part of text t between a lead of length a and a tail of length b.
Middle(t, a, b) == [i \in 1..(Len(t) - a - b) |-> t[a + i]]
\* The last n characters of t.
LastN(t, n) == [i \in 1..n |-> t[Len(t) - n + i]]

\* C11: every render call has a title made of the lead, then at most the
\* first 40 characters of `question` (all of it when it is shorter), then
\* "...", and a body equal to `answer`.
C11_TitlePrefixAndBody ==
    \A i \in 1..Len(renderCalls) :
        LET t == renderCalls[i].title
            m == Middle(t, Len(TitleLead), 3)
        IN
        /\ IsPrefix(TitleLead, t)
        /\ Len(t) >= Len(TitleLead) + 3
        /\ LastN(t, 3) = <<".", ".", ".">>
        /\ Len(m) <= 40
        /\ IsPrefix(m, state["question"])
        /\ Len(m) = 40 \/ m = state["question"]
        /\ renderCalls[i].body = state["answer"]

C11_Witness ==
    /\ renderCalls # <<>>
    /\ Len(state["question"]) > 40
    /\ state["answer"] # <<>>

\* "Respuesta a tu pregunta: 'What is 2+2?...'"
ScenarioSubject ==
    <<"R","e","s","p","u","e","s","t","a"," ","a"," ","t","u"," ",
      "p","r","e","g","u","n","t","a",":"," ","'",
      "W","h","a","t"," ","i","s"," ","2","+","2","?",".",".",".","'">>

InputAndLlmSucceeded ==
    Succeeded("get_user_data") /\ BothLlmCallsSucceeded

\* C12 (as stated): when input and both language-model calls succeed and the
\* mail is delivered, it goes to `recipient`, with the subject built from the
\* question's prefix and a mail body equal to the generated answer.
C12_Original ==
    (InputAndLlmSucceeded /\ Delivered) =>
        /\ smtpLog[1].to = state["email"]
        /\ smtpLog[1].subject = Subject(state["question"])
        /\ smtpLog[1].body = state["answer"]

\* C12 (amended): when input and both language-model calls succeed and the
\* mail is delivered, it goes to `recipient`, its subject is the lead, the
\* first 30 characters of the question and "...'", its body text is the
\* fixed greeting, and the generated answer is the body of the attached
\* document (scenario A: subject as in the spec, attached body "4").
C12_DeliveredMessage ==
    (InputAndLlmSucceeded /\ Delivered) =>
        LET msg == smtpLog[1]
            m   == Middle(msg.subject, Len(SubjectLead), 4)
        IN
        /\ Len(smtpLog) = 1
        /\ msg.to = state["email"]
        /\ IsPrefix(SubjectLead, msg.subject)
        /\ LastN(msg.subject, 4) = <<".", ".", ".", "'">>
        /\ IsPrefix(m, state["question"])
        /\ Len(m) = 30 \/ m = state["question"]
        /\ Len(m) <= 30
        /\ msg.body = EmailBody
        /\ msg.attachment.body = FormatContent(state["answer"])
        /\ (state["question"] = ScenarioQuestion /\ state["answer"] = <<"4">>) =>
              /\ msg.subject = ScenarioSubject
              /\ msg.attachment.body = <<"4">>

C12_Witness ==
    /\ InputAndLlmSucceeded
    /\ Delivered
    /\ state["question"] = ScenarioQuestion
    /\ state["answer"] = <<"4">>

\* The keys whose value differs between s and t, or that only one of them holds.
Changed(s, t) ==
    {k \in DOMAIN s \cup DOMAIN t :
        ~(k \in DOMAIN s /\ k \in DOMAIN t /\ s[k] = t[k])}
\* The keys a node owns.
Owned(node) ==
    CASE node = "get_user_data"     -> {"question", "email"}
      [] node = "analyze_intention" -> {"intention"}
      [] node = "generate_answer"   -> {"answer"}
      [] OTHER                      -> {}

DeclaredOrder ==
    <<"get_user_data", "analyze_intention", "generate_answer", "process_outputs">>

\* C16: the steps run in the declared order, each at most once; when the
\* first three succeed all four have run once the run is over; Generate
\* Answer is never skipped and never runs before Analyze Intention.
C16_DeclaredOrder ==
    /\ Len(trace) <= 4
    /\ \A i \in 1..Len(trace) : trace[i].node = DeclaredOrder[i]
    /\ pc \in Nodes =>
          /\ Len(trace) < 4
          /\ pc = DeclaredOrder[Len(trace) + 1]
    /\ (Terminated /\ InputAndLlmSucceeded) => Len(trace) = 4
    /\ Ran("process_outputs") => Ran("generate_answer")
    /\ Ran("generate_answer") => Ran("analyze_intention")

C16_Witness ==
    /\ Terminated
    /\ InputAndLlmSucceeded
    /\ Len(trace) = 4

\* C17: once `error` is non-empty it stays non-empty, and the mail is never
\* delivered in a run whose `error` is set.
C17_FailedIsAbsorbing ==
    [][ErrorSet(state) => (ErrorSet(state') /\ ~Delivered /\ ~Delivered')]_vars

C17_Witness ==
    /\ ErrorSet(state)
    /\ Has(state, "answer")
    /\ Ran("process_outputs")

\* The step just taken is a failing run of one of the two language-model nodes.
LlmStepFailed ==
    /\ pc \in {"analyze_intention", "generate_answer"}
    /\ Len(trace') = Len(trace) + 1
    /\ trace'[Len(trace')].res = "fail"

\* C18: a failing Analyze Intention or Generate Answer changes `error` and
\* nothing else.
C18_FailureWritesOnlyError ==
    [][LlmStepFailed => Changed(state, state') = {"error"}]_vars

C18_Witness ==
    /\ Failed("analyze_intention")
    /\ Has(state, "question")
    /\ ~Has(state, "intention")
    /\ pc = "generate_answer"

\* The terminal node ran on a state whose `error` was not set.
TerminalRanUnfailed ==
    \E i \in Runs("process_outputs") : ~trace[i].errorBefore

\* C19 (as stated): a terminal node that begins with `error` unset and
\* `answer` absent or empty renders nothing, sends nothing and reports
\* nothing.
C19_Original ==
    (TerminalRanUnfailed /\ ~AnswerNonEmpty(state)) =>
        /\ renderCalls = <<>>
        /\ mailCalls = <<>>
        /\ reported = <<>>

\* C19 (amended): a terminal node that begins with `error` unset always
\* finds `answer` present; when it is the empty text the node still calls
\* the renderer once, with an empty body, and goes on to the dispatcher when
\* the rendering succeeds.
C19_EmptyAnswerIsRendered ==
    TerminalRanUnfailed =>
        /\ Has(state, "answer")
        /\ Len(renderCalls) = 1
        /\ renderCalls[1].body = state["answer"]
        /\ ReportedTag("RenderError") \/ Len(mailCalls) = 1

C19_Witness ==
    /\ TerminalRanUnfailed
    /\ state["answer"] = <<>>
    /\ mailCalls # <<>>

\* C20: the dispatcher is called at most once, only after a rendering that
\* returned an artifact on a state whose `error` is unset; after a failed
\* rendering there is no dispatch, no deletion, and `error` stays unset.
C20_DispatchOnlyAfterRender ==
    /\ Len(mailCalls) <= 1
    /\ mailCalls # <<>> =>
          /\ Len(renderCalls) = 1
          /\ ~ReportedTag("RenderError")
          /\ ~ErrorSet(state)
    /\ ReportedTag("RenderError") =>
          /\ mailCalls = <<>>
          /\ smtpLog = <<>>
          /\ deleteCalls = 0
          /\ ~Has(state, "error")

C20_Witness ==
    /\ ReportedTag("RenderError")
    /\ Terminated
====
